---- MODULE Spec2Model ----
(***************************************************************************)
(* Model of deep_research_mcp.py: the MCP tool handler                     *)
(* retrieve_deep_research_report, its helper                               *)
(* fetch_and_print_new_agent_response and the pure report assembler        *)
(* create_research_summary.                                                *)
(*                                                                         *)
(* One invocation of the handler is modelled.  Every `await` of the        *)
(* handler is one action; the synchronous code that follows an await, up   *)
(* to the next await, belongs to the action that completes the await.      *)
(* Between two awaits the remote service may act: the run advances and     *)
(* the agent appends messages to the thread.                               *)
(*                                                                         *)
(* Strings are sequences of tokens; a token is a TLA+ string.  Text        *)
(* segments of a message are sequences of one-character tokens so that     *)
(* str.strip() can be computed; string concatenation is \o.                *)
(* logger.info output is not part of the model: only ctx notifications.    *)
(***************************************************************************)
EXTENDS Integers, Sequences, FiniteSets, TLC

VARIABLES
    pc,               \* position of the handler coroutine
    agent,            \* remote agent: "none" | "created" | "deleted"
    thread,           \* remote thread: "none" | "created" | "deleted"
    user_message,     \* TRUE once messages.create posted the request
    srv_status,       \* the run's status on the service ("none" before runs.create)
    agent_msgs,       \* agent-role messages of the thread, in creation order
    run,              \* the handler's local `run` object (a snapshot)
    last_message_id,  \* the handler's local last_message_id (0 is None)
    response,         \* `response` inside fetch_and_print_new_agent_response
    ann_i,            \* index of the citation loop inside that helper
    final_message,    \* the handler's local final_message
    report_content,   \* the handler's local report_content
    result,           \* the value returned to the tool server
    raised,           \* the exception that left the handler, if any
    ctx,              \* notifications sent to the calling context, in order
    emitted,          \* ids of the messages sent as "Agent response", in order
    fetched,          \* statuses the loop obtained from runs.get, in order
    sleeps,           \* number of completed asyncio.sleep(10)
    created_status,   \* the status of the run that runs.create returned
    delete_calls      \* number of delete_agent calls issued

vars == <<pc, agent, thread, user_message, srv_status, agent_msgs, run,
          last_message_id, response, ann_i, final_message, report_content,
          result, raised, ctx, emitted, fetched, sleeps, created_status,
          delete_calls>>

----------------------------------------------------------------------------
(* Bounds *)

MaxMessages == 3   \* agent messages appended to the thread during a run
MaxPolls == 3      \* iterations of the polling loop
MaxAnns == 3       \* citation annotations of a message given to the assembler

----------------------------------------------------------------------------
(* Values *)

None == 0

NoMessage == [id |-> None, text |-> <<>>, anns |-> <<>>]

NoRun == [status |-> "none", last_error |-> "None"]

NoException == [at |-> "none", exc |-> "none"]

Unbound == [state |-> "unbound", value |-> <<>>]

NoneResult == [state |-> "none", value |-> <<>>]

PollingStatuses == {"queued", "in_progress"}

TerminalStatuses == {"completed", "failed", "cancelled"}

Whitespace == {" ", "\n"}

Urls == {"u1", "u2"}

Titles == {"", "T1", "T2"}

Citations == [url : Urls, title : Titles]

Fallback == <<"No report content generated.">>

----------------------------------------------------------------------------
(* String helpers *)

RECURSIVE LStrip(_)
LStrip(s) ==
    IF s = <<>> THEN <<>>
    ELSE IF Head(s) \in Whitespace THEN LStrip(Tail(s)) ELSE s

RECURSIVE RStrip(_)
RStrip(s) ==
    IF s = <<>> THEN <<>>
    ELSE IF s[Len(s)] \in Whitespace THEN RStrip(SubSeq(s, 1, Len(s) - 1)) ELSE s

Strip(s) == RStrip(LStrip(s))

RECURSIVE Join(_, _)
Join(sep, parts) ==
    IF parts = <<>> THEN <<>>
    ELSE IF Len(parts) = 1 THEN parts[1]
    ELSE parts[1] \o sep \o Join(sep, Tail(parts))

StripAll(text) == [i \in 1..Len(text) |-> Strip(text[i])]

----------------------------------------------------------------------------
(* create_research_summary: the report assembler *)

RECURSIVE ReferenceLoop(_, _, _, _)
ReferenceLoop(anns, i, seen_urls, acc) ==
    IF i > Len(anns) THEN acc
    ELSE LET url == anns[i].url
             title == IF anns[i].title # "" THEN anns[i].title ELSE url
         IN  IF url \notin seen_urls
             THEN ReferenceLoop(anns, i + 1, seen_urls \cup {url},
                                acc \o <<"- [", title, "](", url, ")\n">>)
             ELSE ReferenceLoop(anns, i + 1, seen_urls, acc)

\* faulty variant: the seen_urls test is dropped, every citation is listed
RECURSIVE ReferenceLoop_NoDedup(_, _, _, _)
ReferenceLoop_NoDedup(anns, i, seen_urls, acc) ==
    IF i > Len(anns) THEN acc
    ELSE LET url == anns[i].url
             title == IF anns[i].title # "" THEN anns[i].title ELSE url
         IN  ReferenceLoop_NoDedup(anns, i + 1, seen_urls \cup {url},
                                   acc \o <<"- [", title, "](", url, ")\n">>)

ReportBody(message) == Join(<<"\n", "\n">>, StripAll(message.text))

ReferencesHeader == <<"\n\n## References\n">>

\* faulty variant: the assembler lists the citations without deduplication
create_research_summary_NoDedup(message) ==
    IF message = NoMessage THEN NoneResult
    ELSE [state |-> "str",
          value |-> IF message.anns # <<>>
                    THEN ReferenceLoop_NoDedup(message.anns, 1, {},
                             Join(<<"\n", "\n">>, StripAll(message.text))
                                \o <<"\n\n## References\n">>)
                    ELSE Join(<<"\n", "\n">>, StripAll(message.text))]

create_research_summary(message) ==
    IF message = NoMessage THEN NoneResult
    ELSE [state |-> "str",
          value |-> IF message.anns # <<>>
                    THEN ReferenceLoop(message.anns, 1, {},
                                       ReportBody(message) \o ReferencesHeader)
                    ELSE ReportBody(message)]

----------------------------------------------------------------------------
(* The remote service *)

\* Contents the agent may write during a run: plain text, text with
\* citations that repeat a URL, and a message of blank text.
SampleContents ==
    { [text |-> << <<" ", "a">> >>, anns |-> <<>>],
      [text |-> << <<"a">>, <<"b", " ">> >>,
       anns |-> << [url |-> "u1", title |-> "T1"],
                   [url |-> "u1", title |-> "T2"],
                   [url |-> "u2", title |-> ""] >>],
      [text |-> << <<" ">> >>, anns |-> <<>>] }

\* messages.get_last_message_by_role(thread_id, role=AGENT)
get_last_message_by_role ==
    IF agent_msgs = <<>> THEN NoMessage ELSE agent_msgs[Len(agent_msgs)]

\* runs.create / runs.get return the run as the service holds it
RunSnapshot ==
    [status |-> srv_status,
     last_error |-> IF srv_status = "failed" THEN "server_error" ELSE "None"]

handler_vars == <<pc, agent, thread, user_message, run, last_message_id,
                  response, ann_i, final_message, report_content, result,
                  raised, ctx, emitted, fetched, sleeps, created_status,
                  delete_calls>>

\* the service picks the queued run up
ServerRunStarts ==
    /\ srv_status = "queued"
    /\ srv_status' = "in_progress"
    /\ UNCHANGED <<agent_msgs, handler_vars>>

\* the agent appends a message to the thread while the run is in progress
AgentAppends ==
    /\ srv_status = "in_progress"
    /\ Len(agent_msgs) < MaxMessages
    /\ \E c \in SampleContents :
          agent_msgs' = Append(agent_msgs,
                [id |-> Len(agent_msgs) + 1, text |-> c.text, anns |-> c.anns])
    /\ UNCHANGED <<srv_status, handler_vars>>

\* the run reaches a terminal status
ServerRunEnds ==
    /\ srv_status = "in_progress"
    /\ \E s \in TerminalStatuses : srv_status' = s
    /\ UNCHANGED <<agent_msgs, handler_vars>>

----------------------------------------------------------------------------
(* retrieve_deep_research_report: the handler, one action per await *)

remote_vars == <<srv_status, agent_msgs>>

fetch_vars == <<last_message_id, response, ann_i, emitted>>

final_vars == <<final_message, report_content, result, raised, delete_calls>>

count_vars == <<fetched, sleeps, created_status>>

Info(text) == [level |-> "info", text |-> text]

Error(text) == [level |-> "error", text |-> text]

\* faulty variant: the loop test forgets "queued"
WhileTarget_InProgressOnly(status) ==
    IF status = "in_progress" THEN "sleep" ELSE "info_run_finished"

\* the `while run.status in ("queued", "in_progress")` test
WhileTarget(status) ==
    IF status \in PollingStatuses THEN "sleep" ELSE "info_run_finished"

Init ==
    /\ pc = "connections_get"
    /\ agent = "none"
    /\ thread = "none"
    /\ user_message = FALSE
    /\ srv_status = "none"
    /\ agent_msgs = <<>>
    /\ run = NoRun
    /\ last_message_id = None
    /\ response = NoMessage
    /\ ann_i = 0
    /\ final_message = NoMessage
    /\ report_content = Unbound
    /\ result = <<>>
    /\ raised = NoException
    /\ ctx = <<>>
    /\ emitted = <<>>
    /\ fetched = <<>>
    /\ sleeps = 0
    /\ created_status = "none"
    /\ delete_calls = 0

ConnectionsGet ==
    /\ pc = "connections_get"
    /\ pc' = "create_agent"
    /\ UNCHANGED <<agent, thread, user_message, run, ctx, remote_vars,
                   fetch_vars, final_vars, count_vars>>

CreateAgent ==
    /\ pc = "create_agent"
    /\ agent' = "created"
    /\ pc' = "info_agent_created"
    /\ UNCHANGED <<thread, user_message, run, ctx, remote_vars,
                   fetch_vars, final_vars, count_vars>>

InfoAgentCreated ==
    /\ pc = "info_agent_created"
    /\ ctx' = Append(ctx, Info(<<"Agent created.">>))
    /\ pc' = "threads_create"
    /\ UNCHANGED <<agent, thread, user_message, run, remote_vars,
                   fetch_vars, final_vars, count_vars>>

ThreadsCreate ==
    /\ pc = "threads_create"
    /\ thread' = "created"
    /\ pc' = "info_thread_created"
    /\ UNCHANGED <<agent, user_message, run, ctx, remote_vars,
                   fetch_vars, final_vars, count_vars>>

InfoThreadCreated ==
    /\ pc = "info_thread_created"
    /\ ctx' = Append(ctx, Info(<<"Thread created.">>))
    /\ pc' = "messages_create"
    /\ UNCHANGED <<agent, thread, user_message, run, remote_vars,
                   fetch_vars, final_vars, count_vars>>

MessagesCreate ==
    /\ pc = "messages_create"
    /\ user_message' = TRUE
    /\ pc' = "info_starting"
    /\ UNCHANGED <<agent, thread, run, ctx, remote_vars,
                   fetch_vars, final_vars, count_vars>>

InfoStarting ==
    /\ pc = "info_starting"
    /\ ctx' = Append(ctx, Info(<<"Starting the research process... this may take a few minutes. Be patient!">>))
    /\ pc' = "runs_create"
    /\ UNCHANGED <<agent, thread, user_message, run, remote_vars,
                   fetch_vars, final_vars, count_vars>>

\* runs.create: the service accepts the request and queues the run ...
RunsCreate ==
    /\ pc = "runs_create"
    /\ srv_status' = "queued"
    /\ pc' = "runs_create_wait"
    /\ UNCHANGED <<agent, thread, user_message, run, ctx, agent_msgs,
                   fetch_vars, final_vars, count_vars>>

\* faulty variant: a do-while loop, the first poll is made whatever the status
RunsCreateReturn_DoWhile ==
    /\ pc = "runs_create_wait"
    /\ run' = RunSnapshot
    /\ created_status' = run'.status
    /\ last_message_id' = None
    /\ pc' = "sleep"
    /\ UNCHANGED <<agent, thread, user_message, ctx, remote_vars,
                   response, ann_i, emitted, final_vars, fetched, sleeps>>

\* ... and answers with the run as it is when the answer is produced
RunsCreateReturn ==
    /\ pc = "runs_create_wait"
    /\ run' = RunSnapshot
    /\ created_status' = run'.status
    /\ last_message_id' = None
    /\ pc' = WhileTarget(run'.status)
    /\ UNCHANGED <<agent, thread, user_message, ctx, remote_vars,
                   response, ann_i, emitted, final_vars, fetched, sleeps>>

Sleep ==
    /\ pc = "sleep"
    /\ sleeps < MaxPolls
    /\ sleeps' = sleeps + 1
    /\ pc' = "runs_get"
    /\ UNCHANGED <<agent, thread, user_message, run, ctx, remote_vars,
                   fetch_vars, final_vars, fetched, created_status>>

RunsGet ==
    /\ pc = "runs_get"
    /\ run' = RunSnapshot
    /\ fetched' = Append(fetched, run'.status)
    /\ pc' = "fetch_get_last"
    /\ UNCHANGED <<agent, thread, user_message, ctx, remote_vars,
                   fetch_vars, final_vars, sleeps, created_status>>

----------------------------------------------------------------------------
(* fetch_and_print_new_agent_response, called from the polling loop *)

\* faulty variant: the comparison with last_message_id is dropped
FetchGetLast_NoIdCheck ==
    /\ pc = "fetch_get_last"
    /\ response' = get_last_message_by_role
    /\ pc' = IF response' = NoMessage
             THEN "info_run_status"
             ELSE "fetch_info_response"
    /\ UNCHANGED <<agent, thread, user_message, run, ctx, remote_vars,
                   last_message_id, ann_i, emitted, final_vars, count_vars>>

\* faulty variant: the early return gives None instead of last_message_id
FetchGetLast_ForgetsId ==
    /\ pc = "fetch_get_last"
    /\ response' = get_last_message_by_role
    /\ IF response' = NoMessage \/ response'.id = last_message_id
       THEN /\ pc' = "info_run_status"
            /\ last_message_id' = None
       ELSE /\ pc' = "fetch_info_response"
            /\ last_message_id' = last_message_id
    /\ UNCHANGED <<agent, thread, user_message, run, ctx, remote_vars,
                   ann_i, emitted, final_vars, count_vars>>

\* get_last_message_by_role and the `not response or response.id ==
\* last_message_id` test; the early return leaves last_message_id as it was
FetchGetLast ==
    /\ pc = "fetch_get_last"
    /\ response' = get_last_message_by_role
    /\ pc' = IF response' = NoMessage \/ response'.id = last_message_id
             THEN "info_run_status"
             ELSE "fetch_info_response"
    /\ UNCHANGED <<agent, thread, user_message, run, ctx, remote_vars,
                   last_message_id, ann_i, emitted, final_vars, count_vars>>

\* ctx.info("\nAgent response:" + "\n".join(...)), then the head of the
\* citation loop; `return response.id` when the message has no citation
FetchInfoResponse ==
    /\ pc = "fetch_info_response"
    /\ ctx' = Append(ctx, Info(<<"\nAgent response:">> \o Join(<<"\n">>, response.text)))
    /\ emitted' = Append(emitted, response.id)
    /\ IF response.anns = <<>>
       THEN /\ last_message_id' = response.id
            /\ ann_i' = 0
            /\ pc' = "info_run_status"
       ELSE /\ last_message_id' = last_message_id
            /\ ann_i' = 1
            /\ pc' = "fetch_info_citation"
    /\ UNCHANGED <<agent, thread, user_message, run, remote_vars, response,
                   final_vars, count_vars>>

\* one iteration of `for ann in response.url_citation_annotations`
FetchInfoCitation ==
    /\ pc = "fetch_info_citation"
    /\ ctx' = Append(ctx, Info(<<"URL Citation: [", response.anns[ann_i].title,
                                 "](", response.anns[ann_i].url, ")">>))
    /\ IF ann_i < Len(response.anns)
       THEN /\ ann_i' = ann_i + 1
            /\ last_message_id' = last_message_id
            /\ pc' = "fetch_info_citation"
       ELSE /\ ann_i' = 0
            /\ last_message_id' = response.id
            /\ pc' = "info_run_status"
    /\ UNCHANGED <<agent, thread, user_message, run, remote_vars, response,
                   emitted, final_vars, count_vars>>

\* ctx.info(f"Run status: {run.status}"), then the loop test
InfoRunStatus ==
    /\ pc = "info_run_status"
    /\ ctx' = Append(ctx, Info(<<"Run status: ", run.status>>))
    /\ pc' = WhileTarget(run.status)
    /\ UNCHANGED <<agent, thread, user_message, run, remote_vars,
                   fetch_vars, final_vars, count_vars>>

----------------------------------------------------------------------------
(* after the loop *)

InfoRunFinished ==
    /\ pc = "info_run_finished"
    /\ ctx' = Append(ctx, Info(<<"Run finished with status: ", run.status>>))
    /\ pc' = IF run.status = "failed" THEN "error_run_failed" ELSE "final_get_last"
    /\ UNCHANGED <<agent, thread, user_message, run, remote_vars,
                   fetch_vars, final_vars, count_vars>>

\* faulty variant: a failed run is reported and then raised
ErrorRunFailed_Raises ==
    /\ pc = "error_run_failed"
    /\ ctx' = Append(ctx, Error(<<"Run failed: ", run.last_error>>))
    /\ raised' = [at |-> "error_run_failed", exc |-> "RuntimeError"]
    /\ pc' = "raised"
    /\ UNCHANGED <<agent, thread, user_message, run, remote_vars, fetch_vars,
                   final_message, report_content, result, delete_calls,
                   count_vars>>

ErrorRunFailed ==
    /\ pc = "error_run_failed"
    /\ ctx' = Append(ctx, Error(<<"Run failed: ", run.last_error>>))
    /\ pc' = "final_get_last"
    /\ UNCHANGED <<agent, thread, user_message, run, remote_vars,
                   fetch_vars, final_vars, count_vars>>

\* the final fetch; report_content is assigned only `if final_message`
FinalGetLast ==
    /\ pc = "final_get_last"
    /\ final_message' = get_last_message_by_role
    /\ report_content' = IF final_message' # NoMessage
                         THEN create_research_summary(final_message')
                         ELSE report_content
    /\ pc' = "delete_agent"
    /\ UNCHANGED <<agent, thread, user_message, run, ctx, remote_vars,
                   fetch_vars, result, raised, delete_calls, count_vars>>

\* `return report_content or "No report content generated."`
ReturnValue(rc) ==
    IF rc.state = "str" /\ rc.value # <<>> THEN rc.value ELSE Fallback

\* faulty variant: the delete_agent line is left out
DeleteAgent_Skipped ==
    /\ pc = "delete_agent"
    /\ delete_calls' = delete_calls
    /\ agent' = agent
    /\ IF report_content.state = "unbound"
       THEN /\ raised' = [at |-> "return", exc |-> "UnboundLocalError"]
            /\ result' = result
            /\ pc' = "raised"
       ELSE /\ raised' = raised
            /\ result' = ReturnValue(report_content)
            /\ pc' = "done"
    /\ UNCHANGED <<thread, user_message, run, ctx, remote_vars, fetch_vars,
                   final_message, report_content, count_vars>>

\* delete_agent succeeds, then the return statement is evaluated; reading
\* a local that was never assigned raises UnboundLocalError
DeleteAgent ==
    /\ pc = "delete_agent"
    /\ delete_calls' = delete_calls + 1
    /\ agent' = "deleted"
    /\ IF report_content.state = "unbound"
       THEN /\ raised' = [at |-> "return", exc |-> "UnboundLocalError"]
            /\ result' = result
            /\ pc' = "raised"
       ELSE /\ raised' = raised
            /\ result' = ReturnValue(report_content)
            /\ pc' = "done"
    /\ UNCHANGED <<thread, user_message, run, ctx, remote_vars, fetch_vars,
                   final_message, report_content, count_vars>>

\* faulty variant: a failure of delete_agent is caught and the handler returns
DeleteAgentFails_Swallowed ==
    /\ pc = "delete_agent"
    /\ delete_calls' = delete_calls + 1
    /\ IF report_content.state = "unbound"
       THEN /\ raised' = [at |-> "return", exc |-> "UnboundLocalError"]
            /\ result' = result
            /\ pc' = "raised"
       ELSE /\ raised' = raised
            /\ result' = ReturnValue(report_content)
            /\ pc' = "done"
    /\ UNCHANGED <<agent, thread, user_message, run, ctx, remote_vars,
                   fetch_vars, final_message, report_content, count_vars>>

\* delete_agent raises: nothing catches it, the handler is left
DeleteAgentFails ==
    /\ pc = "delete_agent"
    /\ delete_calls' = delete_calls + 1
    /\ raised' = [at |-> "delete_agent", exc |-> "ServiceError"]
    /\ pc' = "raised"
    /\ UNCHANGED <<agent, thread, user_message, run, ctx, remote_vars,
                   fetch_vars, final_message, report_content, result, count_vars>>

\* the awaits before delete_agent
AwaitPcs ==
    {"connections_get", "create_agent", "info_agent_created", "threads_create",
     "info_thread_created", "messages_create", "info_starting", "runs_create",
     "runs_create_wait", "sleep", "runs_get", "fetch_get_last",
     "fetch_info_response", "fetch_info_citation", "info_run_status",
     "info_run_finished", "error_run_failed", "final_get_last"}

\* faulty variant: a finally clause deletes the agent on the way out
AwaitFails_WithCleanup ==
    /\ pc \in AwaitPcs
    /\ raised' = [at |-> pc, exc |-> "ServiceError"]
    /\ pc' = "raised"
    /\ agent' = IF agent = "created" THEN "deleted" ELSE agent
    /\ delete_calls' = IF agent = "created" THEN delete_calls + 1 ELSE delete_calls
    /\ UNCHANGED <<thread, user_message, run, ctx, remote_vars,
                   fetch_vars, final_message, report_content, result,
                   count_vars>>

\* any of them raises (service, transport or notification error): no
\* try/except or finally in the handler, the exception leaves it
AwaitFails ==
    /\ pc \in AwaitPcs
    /\ raised' = [at |-> pc, exc |-> "ServiceError"]
    /\ pc' = "raised"
    /\ UNCHANGED <<agent, thread, user_message, run, ctx, remote_vars,
                   fetch_vars, final_message, report_content, result,
                   delete_calls, count_vars>>

Next ==
    \/ ConnectionsGet
    \/ CreateAgent
    \/ InfoAgentCreated
    \/ ThreadsCreate
    \/ InfoThreadCreated
    \/ MessagesCreate
    \/ InfoStarting
    \/ RunsCreate
    \/ RunsCreateReturn
    \/ Sleep
    \/ RunsGet
    \/ FetchGetLast
    \/ FetchInfoResponse
    \/ FetchInfoCitation
    \/ InfoRunStatus
    \/ InfoRunFinished
    \/ ErrorRunFailed
    \/ FinalGetLast
    \/ DeleteAgent
    \/ DeleteAgentFails
    \/ AwaitFails
    \/ ServerRunStarts
    \/ AgentAppends
    \/ ServerRunEnds

Spec == Init /\ [][Next]_vars

----------------------------------------------------------------------------
(* The report assembler on its own: every message of bounded size is       *)
(* given to create_research_summary.                                       *)

SummaryTexts == { << <<"a">> >>, << <<" ", "a", "\n">>, <<"b">> >> }

CitationSeqs == UNION { [1..n -> Citations] : n \in 0..MaxAnns }

SummaryInputs ==
    {NoMessage} \cup
    { [id |-> 1, text |-> t, anns |-> a] : t \in SummaryTexts, a \in CitationSeqs }

InitSummary ==
    /\ pc = "assemble"
    /\ final_message \in SummaryInputs
    /\ agent = "none"
    /\ thread = "none"
    /\ user_message = FALSE
    /\ srv_status = "none"
    /\ agent_msgs = <<>>
    /\ run = NoRun
    /\ last_message_id = None
    /\ response = NoMessage
    /\ ann_i = 0
    /\ report_content = Unbound
    /\ result = <<>>
    /\ raised = NoException
    /\ ctx = <<>>
    /\ emitted = <<>>
    /\ fetched = <<>>
    /\ sleeps = 0
    /\ created_status = "none"
    /\ delete_calls = 0

Assemble ==
    /\ pc = "assemble"
    /\ report_content' = create_research_summary(final_message)
    /\ pc' = "assembled"
    /\ UNCHANGED <<agent, thread, user_message, run, ctx, remote_vars,
                   fetch_vars, final_message, result, raised, delete_calls,
                   count_vars>>

NextSummary == Assemble

SpecSummary == InitSummary /\ [][NextSummary]_vars

----------------------------------------------------------------------------
(* Properties *)

Range(seq) == { seq[i] : i \in DOMAIN seq }

Occurrences(seq, x) == Cardinality({ i \in DOMAIN seq : seq[i] = x })

\* the handler was left, by return or by exception
HandlerLeft == pc \in {"done", "raised"}

\* the handler got past the final get_last_message_by_role
PastFinalFetch ==
    \/ pc \in {"delete_agent", "done"}
    \/ pc = "raised" /\ raised.at \in {"delete_agent", "return"}

\* no remote call and no notification failed
NoServiceError == raised.exc # "ServiceError"

AfterLoopPcs == {"info_run_finished", "error_run_failed", "final_get_last",
                 "delete_agent", "done"}

RunFinishedNotes ==
    { i \in DOMAIN ctx : ctx[i].text[1] = "Run finished with status: " }

AgentResponseNotes ==
    { i \in DOMAIN ctx : ctx[i].text[1] = "\nAgent response:" }

\* C1: when the run is terminal and the final fetch finds no agent message,
\* the handler returns the placeholder "No report content generated." and
\* does not end in an error.
C1_PlaceholderWhenNoAgentMessage ==
    (HandlerLeft /\ PastFinalFetch /\ NoServiceError /\ final_message = NoMessage)
        => (pc = "done" /\ result = Fallback)

\* C2 as stated: when the loop has run and exits, every agent message
\* appended to the thread has been emitted exactly once.
C2_EveryMessageExactlyOnce ==
    (pc = "info_run_finished" /\ fetched # <<>>)
        => \A m \in 1..Len(agent_msgs) : Occurrences(emitted, m) = 1

\* C2 amended: the loop emits an agent message at most once and in thread
\* order, and only a message that is in the thread; the identifier it
\* remembers is the one of the newest emitted message whenever the helper
\* is not in the middle of an emission.
C2_EmittedAtMostOnceInOrder ==
    /\ \A i, j \in DOMAIN emitted : i < j => emitted[i] < emitted[j]
    /\ \A i \in DOMAIN emitted : emitted[i] \in 1..Len(agent_msgs)
    /\ Cardinality(AgentResponseNotes) = Len(emitted)
    /\ pc \notin {"fetch_info_citation", "raised"} =>
          last_message_id = (IF emitted = <<>> THEN None ELSE emitted[Len(emitted)])

\* a message superseded between two polls is never emitted, the others are
C2_Witness ==
    /\ pc = "info_run_finished"
    /\ Len(agent_msgs) = 3
    /\ emitted = <<1, 3>>

\* C3: the loop goes on exactly while the status it holds is queued or
\* in_progress and is left at the first fetched status outside that set;
\* one "Run finished" notification is emitted, after the loop.
C3_PollingEndsWhenStatusLeaves ==
    /\ pc = "sleep" => run.status \in PollingStatuses
    /\ pc \in AfterLoopPcs => run.status \notin PollingStatuses
    /\ \A i \in 1..(Len(fetched) - 1) : fetched[i] \in PollingStatuses
    /\ (pc \in {"sleep", "runs_get"} /\ fetched # <<>>)
          => fetched[Len(fetched)] \in PollingStatuses
    /\ (pc \in AfterLoopPcs /\ fetched # <<>>)
          => fetched[Len(fetched)] \notin PollingStatuses
    /\ pc \in AwaitPcs \ AfterLoopPcs => RunFinishedNotes = {}
    /\ pc = "info_run_finished" => RunFinishedNotes = {}
    /\ pc \in AfterLoopPcs \ {"info_run_finished"} =>
          Cardinality(RunFinishedNotes) = 1

\* the scripted sequence queued, in_progress, completed
C3_Witness ==
    /\ pc = "done"
    /\ created_status = "queued"
    /\ fetched = <<"queued", "in_progress", "completed">>
    /\ Cardinality(RunFinishedNotes) = 1
    /\ ctx[Len(ctx)] = Info(<<"Run finished with status: ", "completed">>)

\* C4: a poll whose latest agent message has the remembered identifier
\* emits nothing and leaves the remembered identifier unchanged.
C4_SameIdentifierEmitsNothing ==
    [][ ( /\ pc = "fetch_get_last"
          /\ pc' \notin {"fetch_get_last", "raised"}
          /\ get_last_message_by_role # NoMessage
          /\ get_last_message_by_role.id = last_message_id )
        => ( /\ pc' = "info_run_status"
             /\ ctx' = ctx
             /\ emitted' = emitted
             /\ last_message_id' = last_message_id ) ]_vars

\* the second poll found the message the first poll had emitted
C4_Witness ==
    /\ pc = "info_run_status"
    /\ Len(fetched) = 2
    /\ response # NoMessage
    /\ response.id = last_message_id
    /\ emitted = <<response.id>>
    /\ Cardinality(AgentResponseNotes) = 1
    /\ ctx[Len(ctx)] = Info(<<"Run status: ", fetched[1]>>)

\* C5: a failed run whose last agent message yields a report: the run's
\* last error is sent as an error notification, the handler does not raise
\* and returns the report assembled from that message.
C5_FailedRunStillReturnsReport ==
    ( /\ HandlerLeft
      /\ NoServiceError
      /\ run.status = "failed"
      /\ agent_msgs # <<>>
      /\ create_research_summary(get_last_message_by_role).value # <<>> )
    => ( /\ pc = "done"
         /\ final_message = get_last_message_by_role
         /\ result = create_research_summary(final_message).value
         /\ Occurrences(ctx, Error(<<"Run failed: ", "server_error">>)) = 1 )

C5_Witness ==
    /\ pc = "done"
    /\ run.status = "failed"
    /\ final_message # NoMessage
    /\ final_message.anns # <<>>
    /\ result = create_research_summary(final_message).value
    /\ result # Fallback

\* C6 as stated: a failure of delete_agent does not leave the handler as an
\* exception.
C6_DeleteFailureNotPropagated ==
    ~(pc = "raised" /\ raised.at = "delete_agent")

\* C6 amended: a failure of delete_agent leaves the handler as an
\* exception; neither the report nor the placeholder is returned.
C6_DeleteFailurePropagates ==
    /\ pc = "done" => (raised = NoException /\ agent = "deleted")
    /\ raised.at = "delete_agent" =>
          (pc = "raised" /\ result = <<>> /\ delete_calls = 1)

C6_Witness ==
    /\ pc = "raised"
    /\ raised.at = "delete_agent"
    /\ report_content.state = "str"
    /\ report_content.value # <<>>
    /\ result = <<>>


\* the positions at which a URL occurs for the first time
FirstOccurrences(anns) ==
    { i \in DOMAIN anns : \A j \in 1..(i - 1) : anns[j].url # anns[i].url }

RECURSIVE EntriesInOrder(_, _)
EntriesInOrder(anns, positions) ==
    IF positions = {} THEN <<>>
    ELSE LET i == CHOOSE m \in positions : \A n \in positions : m <= n
         IN  <<"- [", (IF anns[i].title = "" THEN anns[i].url ELSE anns[i].title),
               "](", anns[i].url, ")\n">>
             \o EntriesInOrder(anns, positions \ {i})

\* the part of the report that follows the "## References" header
ReferenceList(message, report) ==
    SubSeq(report, Len(ReportBody(message)) + Len(ReferencesHeader) + 1, Len(report))

\* C7: for a message with citations the "## References" list holds each
\* distinct URL exactly once, in first-seen order, with the title of the
\* URL's first occurrence, or the URL itself when that title is empty.
C7_ReferencesUniqueFirstSeen ==
    (pc = "assembled" /\ final_message.anns # <<>>) =>
        /\ report_content.state = "str"
        /\ SubSeq(report_content.value, 1,
                  Len(ReportBody(final_message)) + Len(ReferencesHeader))
             = ReportBody(final_message) \o ReferencesHeader
        /\ ReferenceList(final_message, report_content.value)
             = EntriesInOrder(final_message.anns, FirstOccurrences(final_message.anns))
        /\ \A u \in { final_message.anns[i].url : i \in DOMAIN final_message.anns } :
              Occurrences(ReferenceList(final_message, report_content.value), u) \in {1, 2}

\* a URL cited twice, first without a title and then with one
C7_Witness ==
    /\ pc = "assembled"
    /\ Len(final_message.anns) = 3
    /\ final_message.anns[1] = [url |-> "u1", title |-> ""]
    /\ final_message.anns[2] = [url |-> "u2", title |-> "T1"]
    /\ final_message.anns[3] = [url |-> "u1", title |-> "T2"]
    /\ ReferenceList(final_message, report_content.value)
          = <<"- [", "u1", "](", "u1", ")\n", "- [", "T1", "](", "u2", ")\n">>

\* C8: delete_agent is called exactly once by every execution that gets
\* past the final fetch and never by one that an earlier step ended; the
\* agent such an execution created stays undeleted.
C8_DeleteOnlyPastFinalFetch ==
    /\ delete_calls \in {0, 1}
    /\ (pc = "done" \/ (pc = "raised" /\ raised.at \in {"delete_agent", "return"}))
          => delete_calls = 1
    /\ (pc \in AwaitPcs \cup {"delete_agent"}) => delete_calls = 0
    /\ (pc = "raised" /\ raised.at \in AwaitPcs) =>
          /\ delete_calls = 0
          /\ agent # "deleted"
          /\ (raised.at \notin {"connections_get", "create_agent"} => agent = "created")

\* a citation notification failed inside the polling loop: the agent leaks
C8_Witness ==
    /\ pc = "raised"
    /\ raised.at = "fetch_info_citation"
    /\ agent = "created"
    /\ delete_calls = 0

\* C9 as stated: when the handler returns, the agent and the thread it
\* created have both been deleted.
C9_AgentAndThreadDeleted ==
    pc = "done" => (agent = "deleted" /\ thread = "deleted")

\* C9 amended: when the handler returns, the agent it created has been
\* deleted; the thread it created is never deleted.
C9_AgentDeletedThreadKept ==
    /\ pc = "done" => (agent = "deleted" /\ thread = "created")
    /\ thread # "deleted"

C9_Witness ==
    /\ pc = "done"
    /\ agent = "deleted"
    /\ thread = "created"
    /\ user_message

\* C10: the report comes from the fetch made after the loop, whatever the
\* loop remembered; when runs.create returns a run that is already outside
\* {queued, in_progress} there is no sleep, no runs.get and no agent
\* response notification, and the latest agent message is still reported.
C10_ReportFromFinalFetch ==
    /\ pc = "done" =>
          /\ final_message = get_last_message_by_role
          /\ result = ReturnValue(create_research_summary(final_message))
    /\ (created_status \notin PollingStatuses \cup {"none"}) =>
          /\ sleeps = 0
          /\ fetched = <<>>
          /\ emitted = <<>>
          /\ AgentResponseNotes = {}
          /\ last_message_id = None

\* the reported message was never sent as a progress notification
C10_Witness ==
    /\ pc = "done"
    /\ created_status = "completed"
    /\ final_message # NoMessage
    /\ final_message.id \notin Range(emitted)
    /\ last_message_id = None
    /\ result = create_research_summary(final_message).value
    /\ result # Fallback

====
